---- MODULE Spec2Model ----
(***************************************************************************)
(* Staged ingestion workflow of woodpantry-recipes: the ingestion_jobs     *)
(* state machine (HTTP ingest / status / confirm handlers and the          *)
(* recipe.imported subscriber) and the commit transaction that turns a     *)
(* staged payload into recipes / recipe_steps / recipe_ingredients rows.   *)
(***************************************************************************)
EXTENDS Integers, Sequences, FiniteSets, TLC

\* ------------------------------------------------------------------ bounds
MaxJobs == 2        \* ingestion_jobs rows that can be created
MaxRecipes == 2     \* recipe ids the database hands out
MaxRequests == 3    \* HTTP requests served in one behaviour
MaxPublished == 1   \* recipe.imported messages the pipeline publishes

\* every request runs on its own goroutine; they are numbered by arrival
Handlers == 1..MaxRequests

\* ------------------------------------------------------------ wire values
NULL == "NULL"              \* SQL NULL in ingestion_jobs.staged_data
NoJob == 0                  \* a well-formed job id that matches no row
JobIds == 1..MaxJobs

\* raw JSON documents that can arrive as staged_data / LLM content
RawDocs == {"", "not json", "{}", "blank", "soup", "pasta", "stew"}

NoRecipe == [Title |-> "", Steps |-> << >>, Ingredients |-> << >>]

\* json.Unmarshal(raw, &StagedRecipe): ok = FALSE on a syntax error (the
\* empty input included); a missing field keeps its zero value.
Unmarshal(raw) ==
  CASE raw = "soup" ->
         [ok |-> TRUE,
          v |-> [Title |-> "Soup", Steps |-> <<"heat", "serve">>,
                 Ingredients |-> <<[IngredientID |-> "u1", Name |-> "water"],
                                   [IngredientID |-> "{u2}", Name |-> "leek"]>>]]
    [] raw = "pasta" ->
         [ok |-> TRUE,
          v |-> [Title |-> "Pasta", Steps |-> <<"boil">>,
                 Ingredients |-> <<[IngredientID |-> "", Name |-> "salt"],
                                   [IngredientID |-> "u1", Name |-> "water"],
                                   [IngredientID |-> "", Name |-> "oil"]>>]]
    [] raw = "stew" ->
         [ok |-> TRUE,
          v |-> [Title |-> "Stew", Steps |-> << >>,
                 Ingredients |-> <<[IngredientID |-> "not-a-uuid", Name |-> "beef"]>>]]
    [] raw \in {"{}", "blank", "null"} -> [ok |-> TRUE, v |-> NoRecipe]
    [] OTHER -> [ok |-> FALSE, v |-> NoRecipe]

\* json.Marshal(staged): title and ingredients are always emitted, so the
\* zero recipe is written as {"title":"","ingredients":null}, not as {}.
Marshal(staged) ==
  CASE staged.Title = "Soup" -> "soup"
    [] staged.Title = "Pasta" -> "pasta"
    [] staged.Title = "Stew" -> "stew"
    [] OTHER -> "blank"

\* a parser that takes any non-empty text as the id it spells
ParseUUID_mut(s) ==
  IF s = "" THEN [ok |-> FALSE, id |-> "nil"] ELSE [ok |-> TRUE, id |-> s]

\* uuid.Parse: accepts the canonical and the braced form, returns the
\* canonical value.
ParseUUID(s) ==
  CASE s \in {"u1", "{u1}"} -> [ok |-> TRUE, id |-> "u1"]
    [] s \in {"u2", "{u2}"} -> [ok |-> TRUE, id |-> "u2"]
    [] OTHER -> [ok |-> FALSE, id |-> "nil"]

\* a TrimSpace that also folds the case of the status
TrimSpace_mut(s) ==
  CASE s = " " -> ""
    [] s \in {" failed ", "Failed"} -> "failed"
    [] s = " staged " -> "staged"
    [] OTHER -> s

\* strings.TrimSpace on the status strings a message can carry
TrimSpace(s) ==
  CASE s = " " -> ""
    [] s = " failed " -> "failed"
    [] s = " staged " -> "staged"
    [] OTHER -> s

\* request bodies of POST /recipes/ingest
Bodies == {"not json", "{text:''}", "{text:'soup text'}"}

\* json.NewDecoder(r.Body).Decode(&ingestRequest)
DecodeIngestRequest(body) ==
  CASE body = "{text:''}" -> [ok |-> TRUE, Text |-> ""]
    [] body = "{text:'soup text'}" -> [ok |-> TRUE, Text |-> "soup text"]
    [] OTHER -> [ok |-> FALSE, Text |-> ""]

\* recipe.imported deliveries: Valid = FALSE is a body json.Unmarshal rejects
BadDelivery == [Valid |-> FALSE, JobID |-> NoJob, Status |-> "", StagedData |-> ""]

\* <<status, staged_data>> of the deliveries the pipeline sends for a job
EventShapes == { <<"", "soup">>, <<"staged", "{}">>, <<" failed ", "soup">> }

Deliveries ==
  { [Valid |-> TRUE, JobID |-> j, Status |-> e[1], StagedData |-> e[2]] :
      j \in JobIds, e \in EventShapes } \cup {BadDelivery}

\* ---------------------------------------------------------------- state
VARIABLES
  ingestion_jobs,      \* table: job id -> [type, raw_input, status, staged_data]
  recipes,             \* table: committed rows [id, title]
  recipe_steps,        \* table: committed rows [recipe_id, step_number, instruction]
  recipe_ingredients,  \* table: committed rows [recipe_id, seq, ingredient_id]
  nextRecipe,          \* recipe ids handed out so far
  resolver,            \* Service.resolver: "nil" or "dict"
  req,                 \* per HTTP goroutine: the request it is serving
  response,            \* the request answered last and its HTTP response:
                       \* [h, op, job, input, code, calls, body]
  queue,               \* recipe.imported deliveries waiting in the queue
  sub,                 \* the subscriber loop: position, unacked delivery, handler error
  committed,           \* history: [job, recipe, raw, calls] of every commit that succeeded
  npub,                \* messages published
  call,                \* a DictionaryResolver.ResolveIngredient call: position, name,
                       \* the dictionary's reply, the id and error returned
  run,                 \* what Run selects on: its context (live / cancelled) and the
                       \* delivery channel (open / closed)
  conv                 \* a nullInt32 call: position, argument, result

vars == <<ingestion_jobs, recipes, recipe_steps, recipe_ingredients, nextRecipe,
          resolver, req, response, queue, sub, committed, npub, call, run, conv>>

tables == <<recipes, recipe_steps, recipe_ingredients>>

Idle == [op |-> "none", pc |-> "idle", job |-> NoJob, data |-> NULL, rid |-> 0]

Returned == [Idle EXCEPT !.pc = "done"]

\* response bodies: {"error": msg} of jsonError, the encoded ingestion job
\* (its status and staged_data), the encoded recipe
NoBody == [error |-> "", status |-> "", staged_data |-> NULL]
ErrorBody(msg) == [NoBody EXCEPT !.error = msg]
\* a job encoded without its staged_data
JobBody_mut(row) == [NoBody EXCEPT !.status = row.status]

\* the encoded ingestion job
JobBody(row) == [NoBody EXCEPT !.status = row.status, !.staged_data = row.staged_data]
RecipeBody == NoBody

NoResponse ==
  [h |-> 0, op |-> "none", job |-> NoJob, input |-> "", code |-> 0, calls |-> << >>,
   body |-> NoBody]

\* handler h writes its response (jsonError / jsonOK / WriteHeader) and returns;
\* job is the job the request was about (the job created, for an ingest), input
\* the request body, calls the resolver calls the handler made
Respond(h, op, job, input, code, calls, body) ==
  /\ req' = [req EXCEPT ![h] = Returned]
  /\ response' = [h |-> h, op |-> op, job |-> job, input |-> input, code |-> code,
                  calls |-> calls, body |-> body]

SubIdle == [pc |-> "recv", msg |-> BadDelivery, err |-> ""]

\* Run is in its loop: the context is live and the delivery channel open
Running == [ctx |-> "live", msgs |-> "open"]

\* a Go int, 64 bits wide, is written [hi, lo]: its value is hi * 2^16 + lo
\* with lo in 0..2^16-1, so that values outside the 32-bit range can be written
Zero64 == [hi |-> 0, lo |-> 0]
NoConv == [pc |-> "idle", n |-> Zero64, out |-> [Int32 |-> 0, Valid |-> FALSE]]

\* no HTTP response: the request could not be sent or answered
NoReply == [sent |-> FALSE, code |-> 0, body |-> ""]
NoCall == [pc |-> "idle", name |-> "", reply |-> NoReply, id |-> "nil", err |-> "nil"]

Init ==
  /\ ingestion_jobs = << >>
  /\ recipes = {}
  /\ recipe_steps = {}
  /\ recipe_ingredients = {}
  /\ nextRecipe = 0
  /\ resolver = "dict"
  /\ req = [h \in Handlers |-> Idle]
  /\ response = NoResponse
  /\ queue = {}
  /\ sub = SubIdle
  /\ committed = {}
  /\ npub = 0
  /\ call = NoCall
  /\ run = Running
  /\ conv = NoConv

\* ------------------------------------------------------------ sqlc queries
ZeroJob == [type |-> "", raw_input |-> "", status |-> "", staged_data |-> NULL]

\* INSERT INTO ingestion_jobs (type, raw_input): status defaults to 'pending',
\* staged_data to NULL, id to a fresh uuid
CreateIngestionJob(jobs, type, raw_input) ==
  LET id == Cardinality(DOMAIN jobs) + 1
      row == [type |-> type, raw_input |-> raw_input, status |-> "pending",
              staged_data |-> NULL]
  IN  [id |-> id,
       jobs |-> [j \in (DOMAIN jobs) \cup {id} |-> IF j = id THEN row ELSE jobs[j]]]

GetIngestionJob(jobs, id) ==
  IF id \in DOMAIN jobs
    THEN [err |-> "nil", row |-> jobs[id]]
    ELSE [err |-> "ErrNoRows", row |-> ZeroJob]

\* an UPDATE that leaves a failed or confirmed job as it is
UpdateIngestionJobStatus_mut(jobs, id, status) ==
  IF id \notin DOMAIN jobs THEN [err |-> "ErrNoRows", jobs |-> jobs]
  ELSE IF jobs[id].status \in {"failed", "confirmed"} THEN [err |-> "nil", jobs |-> jobs]
  ELSE [err |-> "nil", jobs |-> [jobs EXCEPT ![id].status = status]]

\* an UPDATE without its WHERE clause: every row gets the status
UpdateIngestionJobStatus_all(jobs, id, status) ==
  IF id \in DOMAIN jobs
    THEN [err |-> "nil", jobs |-> [j \in DOMAIN jobs |-> [jobs[j] EXCEPT !.status = status]]]
    ELSE [err |-> "ErrNoRows", jobs |-> jobs]

\* UPDATE ingestion_jobs SET status = $2 WHERE id = $1 RETURNING ... (:one)
UpdateIngestionJobStatus(jobs, id, status) ==
  IF id \in DOMAIN jobs
    THEN [err |-> "nil", jobs |-> [jobs EXCEPT ![id].status = status]]
    ELSE [err |-> "ErrNoRows", jobs |-> jobs]

\* an UPDATE that overwrites raw_input with the payload as well
UpdateIngestionJobStaged_mut(jobs, id, data) ==
  IF id \in DOMAIN jobs
    THEN [err |-> "nil",
          jobs |-> [jobs EXCEPT ![id].status = "staged", ![id].staged_data = data,
                                ![id].raw_input = data]]
    ELSE [err |-> "ErrNoRows", jobs |-> jobs]

\* UPDATE ingestion_jobs SET status = 'staged', staged_data = $2 WHERE id = $1
UpdateIngestionJobStaged(jobs, id, data) ==
  IF id \in DOMAIN jobs
    THEN [err |-> "nil",
          jobs |-> [jobs EXCEPT ![id].status = "staged", ![id].staged_data = data]]
    ELSE [err |-> "ErrNoRows", jobs |-> jobs]

\* ----------------------------------------------- POST /recipes/ingest
\* requests arrive in the order of their numbers
CanStart(h) == req[h].pc = "idle" /\ \A g \in Handlers : g < h => req[g].pc # "idle"

\* a handler without the text check
TextMissing_mut(text) == FALSE

\* if req.Text == "" -> 400
TextMissing(text) == text = ""

\* decode the body, reject an empty text, CreateIngestionJob
IngestStart(h) ==
  /\ CanStart(h)
  /\ \E body \in Bodies, dbok \in BOOLEAN :
       LET d == DecodeIngestRequest(body)
           c == CreateIngestionJob(ingestion_jobs, "text_blob", d.Text)
       IN  IF ~d.ok
             THEN /\ dbok
                  /\ Respond(h, "ingest", NoJob, body, 400, << >>,
                             ErrorBody("invalid request body"))
                  /\ UNCHANGED ingestion_jobs
             ELSE IF TextMissing(d.Text)
               THEN /\ dbok
                    /\ Respond(h, "ingest", NoJob, body, 400, << >>,
                               ErrorBody("text is required"))
                    /\ UNCHANGED ingestion_jobs
             ELSE IF ~dbok
               THEN /\ Respond(h, "ingest", NoJob, body, 500, << >>,
                               ErrorBody("failed to create ingestion job"))
                    /\ UNCHANGED ingestion_jobs
               ELSE /\ Cardinality(DOMAIN ingestion_jobs) < MaxJobs
                    /\ ingestion_jobs' = c.jobs
                    /\ req' = [req EXCEPT ![h] =
                                 [Idle EXCEPT !.op = "ingest", !.pc = "mark_processing",
                                              !.job = c.id, !.data = body]]
                    /\ UNCHANGED response
  /\ UNCHANGED <<tables, nextRecipe, resolver, run, conv, call, queue, sub, committed, npub>>

\* a handler that goes on to the extractor whatever the update returned
MarkedProcessing_mut(dbok, err) == TRUE

\* if _, err := UpdateIngestionJobStatus(processing); err != nil { return }
MarkedProcessing(dbok, err) == dbok /\ err = "nil"

\* UpdateIngestionJobStatus(processing)
IngestMarkProcessing(h) ==
  /\ req[h].op = "ingest" /\ req[h].pc = "mark_processing"
  /\ \E dbok \in BOOLEAN :
       LET u == UpdateIngestionJobStatus(ingestion_jobs, req[h].job, "processing")
       IN  /\ ingestion_jobs' = IF dbok THEN u.jobs ELSE ingestion_jobs
           /\ IF MarkedProcessing(dbok, u.err)
                THEN /\ req' = [req EXCEPT ![h].pc = "extract"]
                     /\ UNCHANGED response
                ELSE Respond(h, "ingest", req[h].job, req[h].data, 500, << >>,
                             ErrorBody("failed to update job status"))
  /\ UNCHANGED <<tables, nextRecipe, resolver, run, conv, call, queue, sub, committed, npub>>

\* svc.ExtractRecipe returns (the LLM answered with some content, or the call
\* failed), then the job is marked failed or the marshalled result is stored
IngestExtract(h) ==
  /\ req[h].op = "ingest" /\ req[h].pc = "extract"
  /\ \E content \in RawDocs \cup {"call failed"}, dbok \in BOOLEAN :
       LET x == Unmarshal(content)
           f == UpdateIngestionJobStatus(ingestion_jobs, req[h].job, "failed")
           s == UpdateIngestionJobStaged(ingestion_jobs, req[h].job, Marshal(x.v))
       IN  IF ~x.ok
             THEN /\ content \in {"not json", "call failed"}
                  /\ ingestion_jobs' = IF dbok THEN f.jobs ELSE ingestion_jobs
                  /\ Respond(h, "ingest", req[h].job, req[h].data, 500, << >>,
                             ErrorBody("extraction failed"))
             ELSE IF dbok /\ s.err = "nil"
               THEN /\ ingestion_jobs' = s.jobs
                    /\ Respond(h, "ingest", req[h].job, req[h].data, 201, << >>,
                               JobBody(s.jobs[req[h].job]))
               ELSE /\ Respond(h, "ingest", req[h].job, req[h].data, 500, << >>,
                               ErrorBody("failed to stage recipe"))
                    /\ UNCHANGED ingestion_jobs
  /\ UNCHANGED <<tables, nextRecipe, resolver, run, conv, call, queue, sub, committed, npub>>

\* ----------------------------------------- GET /recipes/ingest/{job_id}
handleGetIngestJob(h) ==
  /\ CanStart(h)
  /\ \E id \in JobIds \cup {NoJob}, dbok \in BOOLEAN :
       LET g == GetIngestionJob(ingestion_jobs, id)
       IN  IF ~dbok
             THEN Respond(h, "get", id, "", 500, << >>, ErrorBody("failed to get job"))
           ELSE IF g.err = "ErrNoRows"
             THEN Respond(h, "get", id, "", 404, << >>, ErrorBody("job not found"))
           ELSE Respond(h, "get", id, "", 200, << >>, JobBody(g.row))
  /\ UNCHANGED <<ingestion_jobs, tables, nextRecipe, resolver, run, conv, call, queue, sub, committed, npub>>

\* ------------------------------------------------- commit transaction
\* the earlier commit path: every ingredient goes to the resolver
NeedsResolve_mut(ing) == TRUE

\* ing.IngredientID != "" takes the pre-resolved id, otherwise the resolver is asked
NeedsResolve(ing) == ing.IngredientID = ""

\* the Ingredient Dictionary maps a name to its canonical id
DictAnswer(name) == IF name = "salt" THEN "u8" ELSE "u9"

\* the range index itself, 0-based
StepNumber_mut(i) == i

\* int32(i + 1) for the 0-based range index i
StepNumber(i) == i + 1

\* INSERT INTO recipe_steps; UNIQUE(recipe_id, step_number)
CreateStep(rows, row) ==
  IF \E s \in rows : s.recipe_id = row.recipe_id /\ s.step_number = row.step_number
    THEN [ok |-> FALSE, rows |-> rows]
    ELSE [ok |-> TRUE, rows |-> rows \cup {row}]

\* a transaction: the rows written so far, the resolver calls made so far, the
\* error that stopped it, and the number n of database statements issued
EmptyTx ==
  [recipes |-> {}, recipe_steps |-> {}, recipe_ingredients |-> {}, calls |-> << >>,
   err |-> "nil", n |-> 0]

\* one database statement; the fault-th statement of the transaction fails
\* (connection lost, request context cancelled); fault = 0: none fails
Stmt(t, fault, why) ==
  [t EXCEPT !.n = t.n + 1, !.err = IF fault = t.n + 1 THEN why ELSE "nil"]

\* for i, step := range staged.Steps { qtx.CreateStep(...) }
RECURSIVE StepsLoop(_, _, _, _, _)
StepsLoop(t, staged, rid, i, fault) ==
  IF t.err # "nil" \/ i = Len(staged.Steps) THEN t
  ELSE LET s == Stmt(t, fault, "create step")
           c == CreateStep(t.recipe_steps,
                           [recipe_id |-> rid, step_number |-> StepNumber(i),
                            instruction |-> staged.Steps[i + 1]])
           t1 == IF s.err = "nil" /\ c.ok THEN [s EXCEPT !.recipe_steps = c.rows]
                 ELSE [s EXCEPT !.err = "create step"]
       IN  StepsLoop(t1, staged, rid, i + 1, fault)

\* a service that reaches for the dictionary whether or not it was given a resolver
ResolverConfigured_mut(res) == TRUE

\* s.resolver == nil returns "ingredient resolver is not configured"
ResolverConfigured(res) == res # "nil"

\* for _, ing := range staged.Ingredients { parse or resolve; CreateRecipeIngredient }
\* res is Service.resolver; the resolver call for the rfail-th ingredient fails
RECURSIVE IngredientsLoop(_, _, _, _, _, _, _)
IngredientsLoop(t, staged, rid, i, fault, rfail, res) ==
  IF t.err # "nil" \/ i = Len(staged.Ingredients) THEN t
  ELSE LET ing == staged.Ingredients[i + 1]
           p == ParseUUID(ing.IngredientID)
           answer == IF rfail = i + 1 THEN "error" ELSE DictAnswer(ing.Name)
           t1 == CASE ~NeedsResolve(ing) /\ p.ok -> t
                   [] ~NeedsResolve(ing) /\ ~p.ok -> [t EXCEPT !.err = "parse ingredient_id"]
                   [] NeedsResolve(ing) /\ ~ResolverConfigured(res) ->
                        [t EXCEPT !.err = "ingredient resolver is not configured"]
                   [] OTHER ->
                        [t EXCEPT !.calls = Append(@, [seq |-> i + 1, name |-> ing.Name,
                                                       res |-> answer]),
                                  !.err = IF answer = "error" THEN "resolve ingredient"
                                          ELSE "nil"]
           id == IF NeedsResolve(ing) THEN answer ELSE p.id
           s == Stmt(t1, fault, "create recipe ingredient")
           t2 == IF t1.err # "nil" THEN t1
                 ELSE IF s.err # "nil" THEN s
                 ELSE [s EXCEPT !.recipe_ingredients =
                                   @ \cup {[recipe_id |-> rid, seq |-> i + 1,
                                            ingredient_id |-> id]}]
       IN  IngredientsLoop(t2, staged, rid, i + 1, fault, rfail, res)

\* a commit that takes absent or unparseable staged_data for the zero recipe
CommitStagedRecipe_mut(job, rid, fault, rfail, res) ==
  LET staged == Unmarshal(job.staged_data).v
      begin == Stmt(EmptyTx, fault, "begin tx")
      create == Stmt(begin, fault, "create recipe")
      withRecipe == IF create.err # "nil" THEN create
                    ELSE [create EXCEPT !.recipes = {[id |-> rid, title |-> staged.Title]}]
      body == IngredientsLoop(StepsLoop(withRecipe, staged, rid, 0, fault),
                              staged, rid, 0, fault, rfail, res)
  IN  IF begin.err # "nil" THEN begin
      ELSE IF body.err # "nil" THEN body
      ELSE Stmt(body, fault, "commit tx")

\* CommitStagedRecipe up to and including tx.Commit(): the transaction it ran.
\* job is the row the handler read; rid the id the database gives the recipe.
CommitStagedRecipe(job, rid, fault, rfail, res) ==
  LET u == Unmarshal(job.staged_data)
      staged == u.v
      begin == Stmt(EmptyTx, fault, "begin tx")
      create == Stmt(begin, fault, "create recipe")
      withRecipe == IF create.err # "nil" THEN create
                    ELSE [create EXCEPT !.recipes = {[id |-> rid, title |-> staged.Title]}]
      body == IngredientsLoop(StepsLoop(withRecipe, staged, rid, 0, fault),
                              staged, rid, 0, fault, rfail, res)
  IN  IF job.staged_data = NULL THEN [EmptyTx EXCEPT !.err = "staged data is nil"]
      ELSE IF ~u.ok THEN [EmptyTx EXCEPT !.err = "unmarshal staged data"]
      ELSE IF begin.err # "nil" THEN begin
      ELSE IF body.err # "nil" THEN body
      ELSE Stmt(body, fault, "commit tx")

\* what can go wrong in a commit of this payload: <<fault, rfail>> with the
\* database statement (BeginTx, CreateRecipe, CreateStep.., CreateRecipeIngredient..,
\* Commit) or the resolver call that fails; <<0, 0>>: nothing fails
Faults(raw) ==
  IF raw = NULL \/ ~Unmarshal(raw).ok THEN { <<0, 0>> }
  ELSE LET staged == Unmarshal(raw).v
       IN  { <<k, 0>> : k \in 0..(3 + Len(staged.Steps) + Len(staged.Ingredients)) }
             \cup { <<0, k>> : k \in { i \in 1..Len(staged.Ingredients) :
                                        staged.Ingredients[i].IngredientID = "" } }

Visible ==
  [recipes |-> recipes, recipe_steps |-> recipe_steps,
   recipe_ingredients |-> recipe_ingredients]

\* tx.Commit() succeeded: the transaction's rows become visible together
TxCommit(vis, t) ==
  [recipes |-> vis.recipes \cup t.recipes,
   recipe_steps |-> vis.recipe_steps \cup t.recipe_steps,
   recipe_ingredients |-> vis.recipe_ingredients \cup t.recipe_ingredients]

\* a rollback that leaves the rows written before the error
TxRollback_mut(vis, t) == TxCommit(vis, t)

\* defer tx.Rollback(): the transaction's rows are discarded
TxRollback(vis, t) == vis

SetTables(t) ==
  /\ recipes' = t.recipes
  /\ recipe_steps' = t.recipe_steps
  /\ recipe_ingredients' = t.recipe_ingredients

\* -------------------------------- POST /recipes/ingest/{job_id}/confirm
\* a status check that lets a failed job through
ConfirmAllowed_mut(status) == status \in {"staged", "failed"}

\* if job.Status != "staged" -> 409
ConfirmAllowed(status) == status = "staged"

\* a handler that marks the job failed when the commit returned an error
OnCommitError_mut(jobs, id) == UpdateIngestionJobStatus(jobs, id, "failed").jobs

\* what the handler does with the job row when the commit returned an error
OnCommitError(jobs, id) == jobs

\* GetIngestionJob and the status check
ConfirmGet(h) ==
  /\ CanStart(h)
  /\ \E id \in JobIds \cup {NoJob}, dbok \in BOOLEAN :
       LET g == GetIngestionJob(ingestion_jobs, id)
       IN  IF ~dbok
             THEN Respond(h, "confirm", id, "", 500, << >>, ErrorBody("failed to get job"))
           ELSE IF g.err = "ErrNoRows"
             THEN Respond(h, "confirm", id, "", 404, << >>, ErrorBody("job not found"))
           ELSE IF ~ConfirmAllowed(g.row.status)
             THEN Respond(h, "confirm", id, "", 409, << >>,
                          ErrorBody("job is not in staged status"))
           ELSE /\ req' = [req EXCEPT ![h] =
                             [Idle EXCEPT !.op = "confirm", !.pc = "commit", !.job = id,
                                          !.data = g.row.staged_data]]
                /\ UNCHANGED response
  /\ UNCHANGED <<ingestion_jobs, tables, nextRecipe, resolver, run, conv, call, queue, sub, committed, npub>>

\* svc.CommitStagedRecipe(r.Context(), job) on the row read by ConfirmGet
ConfirmCommit(h) ==
  /\ req[h].op = "confirm" /\ req[h].pc = "commit"
  /\ nextRecipe < MaxRecipes
  /\ \E f \in Faults(req[h].data) :
       LET job == [ZeroJob EXCEPT !.status = "staged", !.staged_data = req[h].data]
           rid == nextRecipe + 1
           t == CommitStagedRecipe(job, rid, f[1], f[2], resolver)
       IN  IF t.err = "nil"
             THEN /\ SetTables(TxCommit(Visible, t))
                  /\ nextRecipe' = rid
                  /\ committed' = committed \cup
                       {[job |-> req[h].job, recipe |-> rid, raw |-> req[h].data,
                         calls |-> t.calls]}
                  /\ req' = [req EXCEPT ![h].pc = "mark_confirmed", ![h].rid = rid]
                  /\ UNCHANGED <<ingestion_jobs, response>>
             ELSE /\ SetTables(TxRollback(Visible, t))
                  /\ ingestion_jobs' = OnCommitError(ingestion_jobs, req[h].job)
                  /\ Respond(h, "confirm", req[h].job, "", 500, t.calls,
                             ErrorBody("failed to commit recipe: " \o t.err))
                  /\ UNCHANGED <<nextRecipe, committed>>
  /\ UNCHANGED <<resolver, run, conv, call, queue, sub, npub>>

\* a handler that reports the failed update of the job as a server error
ConfirmCode_mut(dbok) == IF dbok THEN 201 ELSE 500

\* the status the handler writes after the commit: the error of
\* UpdateIngestionJobStatus(confirmed) is only logged (slog.Error)
ConfirmCode(dbok) == 201

\* UpdateIngestionJobStatus(confirmed), then the committed recipe as the response
ConfirmMark(h) ==
  /\ req[h].op = "confirm" /\ req[h].pc = "mark_confirmed"
  /\ \E dbok \in BOOLEAN :
       LET u == UpdateIngestionJobStatus(ingestion_jobs, req[h].job, "confirmed")
       IN  /\ ingestion_jobs' = IF dbok THEN u.jobs ELSE ingestion_jobs
           /\ Respond(h, "confirm", req[h].job, "", ConfirmCode(dbok), << >>, RecipeBody)
  /\ UNCHANGED <<tables, nextRecipe, resolver, run, conv, call, queue, sub, committed, npub>>

\* ------------------------------------------- recipe.imported subscriber
\* a handler that leaves an omitted status as it is
DefaultStatus_mut(trimmed) == trimmed

\* if status == "" { status = "staged" }
DefaultStatus(trimmed) == IF trimmed = "" THEN "staged" ELSE trimmed

\* a staged branch that checks the length of the payload only
ValidateStagedData_mut(data) == IF data = "" THEN "missing staged_data" ELSE "nil"

\* the staged branch's checks of event.StagedData: len(...) == 0, json.Unmarshal
ValidateStagedData(data) ==
  IF data = "" THEN "missing staged_data"
  ELSE IF ~Unmarshal(data).ok THEN "invalid staged_data"
  ELSE "nil"

\* HandleRecipeImportedEvent: the error it returns and the jobs table it leaves;
\* dbok = FALSE is a query that fails for a reason other than a missing row
HandleRecipeImportedEvent(jobs, event, dbok) ==
  LET status == DefaultStatus(TrimSpace(event.Status))
      f == UpdateIngestionJobStatus(jobs, event.JobID, "failed")
      s == UpdateIngestionJobStaged(jobs, event.JobID, event.StagedData)
      v == ValidateStagedData(event.StagedData)
  IN  CASE status = "failed" ->
             IF ~dbok THEN [err |-> "db", jobs |-> jobs] ELSE f
        [] status = "staged" ->
             IF v # "nil" THEN [err |-> v, jobs |-> jobs]
             ELSE IF ~dbok THEN [err |-> "db", jobs |-> jobs]
             ELSE s
        [] OTHER -> [err |-> "unsupported status", jobs |-> jobs]

\* a loop that returns without waiting for the cancellation
CtxDone_mut(r) == TRUE

\* case <-ctx.Done()
CtxDone(r) == r.ctx = "cancelled"

\* msg, ok := <-msgs with ok false
MsgsClosed(r) == r.msgs = "closed"

\* whether a query run with the handler's ctx can succeed: never once ctx is cancelled
QueryOutcomes(r) == IF CtxDone(r) THEN {FALSE} ELSE BOOLEAN

\* the ingestion pipeline (or the broker, redelivering) puts a message in the queue
Publish ==
  /\ npub < MaxPublished
  /\ \E m \in Deliveries \ queue :
       /\ queue' = queue \cup {m}
       /\ npub' = npub + 1
  /\ UNCHANGED <<ingestion_jobs, tables, nextRecipe, resolver, run, conv, call, req, response, sub, committed>>

\* case msg, ok := <-msgs; json.Unmarshal(msg.Body, &event);
\* s.handler.HandleRecipeImportedEvent(ctx, event)
SubDeliver ==
  /\ sub.pc = "recv"
  /\ ~MsgsClosed(run)
  /\ \E m \in queue :
       /\ queue' = queue \ {m}
       /\ IF ~m.Valid
            THEN /\ sub' = [pc |-> "settle", msg |-> m, err |-> "invalid payload"]
                 /\ UNCHANGED ingestion_jobs
            ELSE \E dbok \in QueryOutcomes(run) :
                   LET r == HandleRecipeImportedEvent(ingestion_jobs, m, dbok)
                   IN  /\ sub' = [pc |-> "settle", msg |-> m, err |-> r.err]
                       /\ ingestion_jobs' = r.jobs
  /\ UNCHANGED <<tables, nextRecipe, resolver, run, conv, call, req, response, committed, npub>>

\* a subscriber that requeues the message of an unknown job
Settlement_mut(err) ==
  IF err \in {"nil", "invalid payload"} THEN "ack" ELSE "nack"

\* msg.Ack(false) / msg.Nack(false, true)
Settlement(err) ==
  IF err \in {"nil", "invalid payload", "ErrNoRows"} THEN "ack" ELSE "nack"

\* on a closed channel neither call reaches the broker (the error of Ack is
\* logged, that of Nack dropped) and the unacknowledged message stays queued
SubSettle ==
  /\ sub.pc = "settle"
  /\ queue' = IF Settlement(sub.err) = "ack" /\ ~MsgsClosed(run)
                 THEN queue ELSE queue \cup {sub.msg}
  /\ sub' = SubIdle
  /\ UNCHANGED <<ingestion_jobs, tables, nextRecipe, resolver, run, conv, call, req, response, committed, npub>>

\* ------------------------------------------------------------------ spec
Next ==
  \/ \E h \in Handlers : IngestStart(h)
  \/ \E h \in Handlers : IngestMarkProcessing(h)
  \/ \E h \in Handlers : IngestExtract(h)
  \/ \E h \in Handlers : handleGetIngestJob(h)
  \/ \E h \in Handlers : ConfirmGet(h)
  \/ \E h \in Handlers : ConfirmCommit(h)
  \/ \E h \in Handlers : ConfirmMark(h)
  \/ Publish
  \/ SubDeliver
  \/ SubSettle

Spec == Init /\ [][Next]_vars

\* ------------------------------------- the subscriber on any one message
\* statuses and staged_data ("": the field is omitted) a message can carry
EventStatuses == {"", " ", "staged", " staged ", "failed", " failed ", "Failed", "done"}
EventDocs == {"", "not json", "{}", "null", "soup"}

AllEvents ==
  { [Valid |-> TRUE, JobID |-> j, Status |-> st, StagedData |-> d] :
      j \in JobIds, st \in EventStatuses, d \in EventDocs } \cup {BadDelivery}

\* <<status, staged_data>> of a job row when the message arrives
JobStates ==
  { <<"pending", NULL>>, <<"processing", NULL>>, <<"staged", "pasta">>,
    <<"failed", NULL>>, <<"failed", "pasta">>, <<"confirmed", "pasta">> }

\* the service with no job or with job 1 in any state, and one message queued
SubscriberInit ==
  /\ ingestion_jobs \in
       { << >> } \cup
       { << [type |-> "text_blob", raw_input |-> "soup text", status |-> st[1],
              staged_data |-> st[2]] >> : st \in JobStates }
  /\ recipes = {}
  /\ recipe_steps = {}
  /\ recipe_ingredients = {}
  /\ nextRecipe = 0
  /\ resolver = "dict"
  /\ req = [h \in Handlers |-> Idle]
  /\ response = NoResponse
  /\ \E m \in AllEvents : queue = {m}
  /\ sub = SubIdle
  /\ committed = {}
  /\ npub = 0
  /\ call = NoCall
  /\ run = Running
  /\ conv = NoConv

SubscriberNext == SubDeliver \/ SubSettle

SubscriberSpec == SubscriberInit /\ [][SubscriberNext]_vars

\* ------------------------------------------- the end of the subscriber loop
\* main returns and its deferred cancel() runs
Cancel ==
  /\ run.ctx = "live"
  /\ run' = [run EXCEPT !.ctx = "cancelled"]
  /\ UNCHANGED <<ingestion_jobs, tables, nextRecipe, resolver, conv, call, req, response,
                 queue, sub, committed, npub>>

\* the AMQP channel or its connection goes away and the library closes msgs
CloseChannel ==
  /\ run.msgs = "open"
  /\ run' = [run EXCEPT !.msgs = "closed"]
  /\ UNCHANGED <<ingestion_jobs, tables, nextRecipe, resolver, conv, call, req, response,
                 queue, sub, committed, npub>>

\* case <-ctx.Done(): return nil
SubReturnNil ==
  /\ sub.pc = "recv"
  /\ CtxDone(run)
  /\ sub' = [pc |-> "returned", msg |-> BadDelivery, err |-> "nil"]
  /\ UNCHANGED <<ingestion_jobs, tables, nextRecipe, resolver, run, conv, call, req,
                 response, queue, committed, npub>>

\* if !ok { return errors.New("recipe.imported delivery channel closed") }
SubReturnClosed ==
  /\ sub.pc = "recv"
  /\ MsgsClosed(run)
  /\ sub' = [pc |-> "returned", msg |-> BadDelivery,
             err |-> "recipe.imported delivery channel closed"]
  /\ UNCHANGED <<ingestion_jobs, tables, nextRecipe, resolver, run, conv, call, req,
                 response, queue, committed, npub>>

\* the subscriber goroutine started by main, its queue still being published to
RunNext ==
  \/ Publish
  \/ SubDeliver
  \/ SubSettle
  \/ Cancel
  \/ CloseChannel
  \/ SubReturnNil
  \/ SubReturnClosed

RunSpec == SubscriberInit /\ [][RunNext]_vars

\* ------------------------------- CommitStagedRecipe on any job row
\* staged_data of the row handed to CommitStagedRecipe: absent, not JSON, or a payload
CommitInputs == {NULL, "", "not json", "{}", "soup", "pasta", "stew"}

\* every job is staged with any staged_data and a confirm request for it has
\* read its row; the service runs with or without a resolver
CommitInit ==
  /\ ingestion_jobs \in
       [JobIds -> { [type |-> "text_blob", raw_input |-> "soup text", status |-> "staged",
                     staged_data |-> d] : d \in CommitInputs }]
  /\ recipes = {}
  /\ recipe_steps = {}
  /\ recipe_ingredients = {}
  /\ nextRecipe = 0
  /\ resolver \in {"nil", "dict"}
  /\ req = [h \in Handlers |->
              IF h \in JobIds
                THEN [Idle EXCEPT !.op = "confirm", !.pc = "commit", !.job = h,
                                  !.data = ingestion_jobs[h].staged_data]
                ELSE Idle]
  /\ response = NoResponse
  /\ queue = {}
  /\ sub = SubIdle
  /\ committed = {}
  /\ npub = 0
  /\ call = NoCall
  /\ run = Running
  /\ conv = NoConv

CommitNext ==
  \/ \E h \in Handlers : ConfirmCommit(h)
  \/ \E h \in Handlers : ConfirmMark(h)

CommitSpec == CommitInit /\ [][CommitNext]_vars

\* ----------------------------- DictionaryResolver.ResolveIngredient
\* a status outside the two the resolver knows is taken too: any 2xx
StatusAccepted_mut(code) == code \in 200..299

\* resp.StatusCode != http.StatusOK && resp.StatusCode != http.StatusCreated is an error
StatusAccepted(code) == code \in {200, 201}

\* bodies the dictionary can answer with
ResolveBodies ==
  {"not json", "{}", "{ingredient:{id:'u1'}}", "{ingredient:{id:'{u2}'}}",
   "{ingredient:{id:'not-a-uuid'}}"}

\* json.NewDecoder(resp.Body).Decode(&rr): a missing field keeps rr.Ingredient.ID = ""
DecodeResolveResponse(body) ==
  CASE body = "{ingredient:{id:'u1'}}" -> [ok |-> TRUE, id |-> "u1"]
    [] body = "{ingredient:{id:'{u2}'}}" -> [ok |-> TRUE, id |-> "{u2}"]
    [] body = "{ingredient:{id:'not-a-uuid'}}" -> [ok |-> TRUE, id |-> "not-a-uuid"]
    [] body = "{}" -> [ok |-> TRUE, id |-> ""]
    [] OTHER -> [ok |-> FALSE, id |-> ""]

\* status codes the dictionary can answer with
ResolveCodes == {200, 201, 202, 204, 301, 400, 404, 409, 500, 503}

\* what http.DefaultClient.Do can come back with
Replies ==
  { [sent |-> TRUE, code |-> c, body |-> b] : c \in ResolveCodes, b \in ResolveBodies }
    \cup {NoReply}

\* the value and error ResolveIngredient returns for the dictionary's reply
ResolveIngredient(reply) ==
  LET rr == DecodeResolveResponse(reply.body)
      p == ParseUUID(rr.id)
  IN  IF ~reply.sent THEN [id |-> "nil", err |-> "resolve request"]
      ELSE IF ~StatusAccepted(reply.code) THEN [id |-> "nil", err |-> "resolve returned status"]
      ELSE IF ~rr.ok THEN [id |-> "nil", err |-> "decode resolve response"]
      ELSE IF ~p.ok THEN [id |-> "nil", err |-> "parse ingredient id"]
      ELSE [id |-> p.id, err |-> "nil"]

\* POST {baseURL}/ingredients/resolve with {"name": name}
ResolveSend ==
  /\ call.pc \in {"idle", "returned"}
  /\ \E name \in {"salt", "oil"} : call' = [NoCall EXCEPT !.pc = "sent", !.name = name]
  /\ UNCHANGED <<ingestion_jobs, tables, nextRecipe, resolver, run, conv, req, response, queue, sub,
                 committed, npub>>

\* the dictionary answers, or the request fails in transport
ResolveReply ==
  /\ call.pc = "sent"
  /\ \E reply \in Replies : call' = [call EXCEPT !.pc = "replied", !.reply = reply]
  /\ UNCHANGED <<ingestion_jobs, tables, nextRecipe, resolver, run, conv, req, response, queue, sub,
                 committed, npub>>

\* ResolveIngredient returns
ResolveReturn ==
  /\ call.pc = "replied"
  /\ LET r == ResolveIngredient(call.reply)
     IN  call' = [call EXCEPT !.pc = "returned", !.id = r.id, !.err = r.err]
  /\ UNCHANGED <<ingestion_jobs, tables, nextRecipe, resolver, run, conv, req, response, queue, sub,
                 committed, npub>>

ResolverNext == ResolveSend \/ ResolveReply \/ ResolveReturn

ResolverSpec == Init /\ [][ResolverNext]_vars

\* --------------------------------------- POST / PUT / DELETE /recipes
RecipeIds == 1..MaxRecipes

\* request bodies of create and update
RecipeBodies ==
  {"not json", "{steps:[1]}", "{title:'Tea',steps:[1,2],ingredients:[u1]}",
   "{title:'Rice',steps:[2],ingredients:[{u2},u1]}",
   "{title:'Eggs',steps:[1],ingredients:[]}",
   "{title:'Jam',steps:[1,1],ingredients:[u1]}",
   "{title:'Pie',steps:[1],ingredients:[u1,not-a-uuid]}"}

NoInput == [Title |-> "", Steps |-> << >>, Ingredients |-> << >>]

\* json.NewDecoder(r.Body).Decode(&req) into recipeInput: each step carries the
\* step_number the client sent, each ingredient the ingredient_id it sent
DecodeRecipeInput(body) ==
  CASE body = "{steps:[1]}" ->
         [ok |-> TRUE,
          v |-> [NoInput EXCEPT !.Steps = <<[StepNumber |-> 1, Instruction |-> "stir"]>>]]
    [] body = "{title:'Tea',steps:[1,2],ingredients:[u1]}" ->
         [ok |-> TRUE,
          v |-> [Title |-> "Tea",
                 Steps |-> <<[StepNumber |-> 1, Instruction |-> "boil"],
                             [StepNumber |-> 2, Instruction |-> "steep"]>>,
                 Ingredients |-> <<"u1">>]]
    [] body = "{title:'Rice',steps:[2],ingredients:[{u2},u1]}" ->
         [ok |-> TRUE,
          v |-> [Title |-> "Rice",
                 Steps |-> <<[StepNumber |-> 2, Instruction |-> "rinse"]>>,
                 Ingredients |-> <<"{u2}", "u1">>]]
    [] body = "{title:'Eggs',steps:[1],ingredients:[]}" ->
         [ok |-> TRUE,
          v |-> [Title |-> "Eggs",
                 Steps |-> <<[StepNumber |-> 1, Instruction |-> "fry"]>>,
                 Ingredients |-> << >>]]
    [] body = "{title:'Jam',steps:[1,1],ingredients:[u1]}" ->
         [ok |-> TRUE,
          v |-> [Title |-> "Jam",
                 Steps |-> <<[StepNumber |-> 1, Instruction |-> "mash"],
                             [StepNumber |-> 1, Instruction |-> "cook"]>>,
                 Ingredients |-> <<"u1">>]]
    [] body = "{title:'Pie',steps:[1],ingredients:[u1,not-a-uuid]}" ->
         [ok |-> TRUE,
          v |-> [Title |-> "Pie",
                 Steps |-> <<[StepNumber |-> 1, Instruction |-> "bake"]>>,
                 Ingredients |-> <<"u1", "not-a-uuid">>]]
    [] OTHER -> [ok |-> FALSE, v |-> NoInput]

\* handler h answers a request about recipe rid and returns
RespondRecipe(h, op, rid, input, code, body) ==
  /\ req' = [req EXCEPT ![h] = [Returned EXCEPT !.rid = rid]]
  /\ response' = [h |-> h, op |-> op, job |-> NoJob, input |-> input, code |-> code,
                  calls |-> << >>, body |-> body]

\* svc.DB().BeginTx: the transaction works on what is visible when it begins
BeginTx(vis, fault) ==
  Stmt([recipes |-> vis.recipes, recipe_steps |-> vis.recipe_steps,
        recipe_ingredients |-> vis.recipe_ingredients, err |-> "nil", n |-> 0],
       fault, "failed to start transaction")

\* a DELETE that removes nothing
DeleteStepsByRecipe_mut(rows, id) == rows

\* DELETE FROM recipe_steps WHERE recipe_id = $1
DeleteStepsByRecipe(rows, id) == { s \in rows : s.recipe_id # id }

\* DELETE FROM recipe_ingredients WHERE recipe_id = $1
DeleteIngredientsByRecipe(rows, id) == { g \in rows : g.recipe_id # id }

\* for _, step := range req.Steps { qtx.CreateStep(... int32(step.StepNumber) ...) }
RECURSIVE InputStepsLoop(_, _, _, _, _, _)
InputStepsLoop(t, steps, rid, i, fault, why) ==
  IF t.err # "nil" \/ i = Len(steps) THEN t
  ELSE LET s == Stmt(t, fault, why)
           c == CreateStep(t.recipe_steps,
                           [recipe_id |-> rid, step_number |-> steps[i + 1].StepNumber,
                            instruction |-> steps[i + 1].Instruction])
           t1 == IF s.err = "nil" /\ c.ok THEN [s EXCEPT !.recipe_steps = c.rows]
                 ELSE [s EXCEPT !.err = why]
       IN  InputStepsLoop(t1, steps, rid, i + 1, fault, why)

\* for _, ing := range req.Ingredients { uuid.Parse; qtx.CreateRecipeIngredient }
RECURSIVE InputIngredientsLoop(_, _, _, _, _, _)
InputIngredientsLoop(t, ings, rid, i, fault, why) ==
  IF t.err # "nil" \/ i = Len(ings) THEN t
  ELSE LET p == ParseUUID(ings[i + 1])
           s == Stmt(t, fault, why)
           t1 == IF ~p.ok THEN [t EXCEPT !.err = "invalid ingredient_id"]
                 ELSE IF s.err # "nil" THEN s
                 ELSE [s EXCEPT !.recipe_ingredients =
                                   @ \cup {[recipe_id |-> rid, seq |-> i + 1,
                                            ingredient_id |-> p.id]}]
       IN  InputIngredientsLoop(t1, ings, rid, i + 1, fault, why)

\* jsonError status of a failed transaction: 400 for a bad ingredient id, else 500
TxErrorCode(err) == IF err = "invalid ingredient_id" THEN 400 ELSE 500

\* the statements of handleCreateRecipe's transaction, tx.Commit() included
CreateRecipeTx(vis, input, rid, fault) ==
  LET begin == BeginTx(vis, fault)
      create == Stmt(begin, fault, "failed to create recipe")
      withRecipe == IF create.err # "nil" THEN create
                    ELSE [create EXCEPT !.recipes = @ \cup {[id |-> rid, title |-> input.Title]}]
      body == InputIngredientsLoop(
                InputStepsLoop(withRecipe, input.Steps, rid, 0, fault, "failed to create step"),
                input.Ingredients, rid, 0, fault, "failed to create recipe ingredient")
  IN  IF begin.err # "nil" THEN begin
      ELSE IF body.err # "nil" THEN body
      ELSE Stmt(body, fault, "failed to commit")

\* the statements of handleUpdateRecipe's transaction, tx.Commit() included
UpdateRecipeTx(vis, input, id, fault) ==
  LET begin == BeginTx(vis, fault)
      update == Stmt(begin, fault, "failed to update recipe")
      withRecipe ==
        IF update.err # "nil" THEN update
        ELSE [update EXCEPT !.recipes =
                { IF r.id = id THEN [r EXCEPT !.title = input.Title] ELSE r : r \in @ }]
      clearSteps == Stmt(withRecipe, fault, "failed to clear steps")
      noSteps ==
        IF withRecipe.err # "nil" THEN withRecipe
        ELSE IF clearSteps.err # "nil" THEN clearSteps
        ELSE [clearSteps EXCEPT !.recipe_steps = DeleteStepsByRecipe(@, id)]
      steps == InputStepsLoop(noSteps, input.Steps, id, 0, fault, "failed to update step")
      clearIngs == Stmt(steps, fault, "failed to clear ingredients")
      noIngs ==
        IF steps.err # "nil" THEN steps
        ELSE IF clearIngs.err # "nil" THEN clearIngs
        ELSE [clearIngs EXCEPT !.recipe_ingredients = DeleteIngredientsByRecipe(@, id)]
      body == InputIngredientsLoop(noIngs, input.Ingredients, id, 0, fault,
                                   "failed to update ingredient")
  IN  IF begin.err # "nil" THEN begin
      ELSE IF body.err # "nil" THEN body
      ELSE Stmt(body, fault, "failed to commit")

\* the database statement of a recipe transaction that fails; 0: none
RecipeFaults(input) == 0..(5 + Len(input.Steps) + Len(input.Ingredients))

\* POST /recipes
handleCreateRecipe(h) ==
  /\ CanStart(h)
  /\ \E body \in RecipeBodies :
       LET d == DecodeRecipeInput(body)
           rid == nextRecipe + 1
       IN  IF ~d.ok
             THEN /\ RespondRecipe(h, "create", 0, body, 400, ErrorBody("invalid request body"))
                  /\ UNCHANGED <<tables, nextRecipe>>
           ELSE IF d.v.Title = ""
             THEN /\ RespondRecipe(h, "create", 0, body, 400, ErrorBody("title is required"))
                  /\ UNCHANGED <<tables, nextRecipe>>
           ELSE /\ nextRecipe < MaxRecipes
                /\ \E fault \in RecipeFaults(d.v) :
                     LET t == CreateRecipeTx(Visible, d.v, rid, fault)
                     IN  IF t.err = "nil"
                           THEN /\ SetTables(t)
                                /\ nextRecipe' = rid
                                /\ RespondRecipe(h, "create", rid, body, 201, RecipeBody)
                           ELSE /\ SetTables(TxRollback(Visible, t))
                                /\ RespondRecipe(h, "create", 0, body, TxErrorCode(t.err),
                                                 ErrorBody(t.err))
                                /\ UNCHANGED nextRecipe
  /\ UNCHANGED <<ingestion_jobs, resolver, run, conv, call, queue, sub, committed, npub>>

\* PUT /recipes/{id}
handleUpdateRecipe(h) ==
  /\ CanStart(h)
  /\ \E id \in RecipeIds, body \in RecipeBodies :
       LET d == DecodeRecipeInput(body)
       IN  IF \A r \in recipes : r.id # id
             THEN /\ RespondRecipe(h, "update", id, body, 404, ErrorBody("recipe not found"))
                  /\ UNCHANGED tables
           ELSE IF ~d.ok
             THEN /\ RespondRecipe(h, "update", id, body, 400, ErrorBody("invalid request body"))
                  /\ UNCHANGED tables
           ELSE IF d.v.Title = ""
             THEN /\ RespondRecipe(h, "update", id, body, 400, ErrorBody("title is required"))
                  /\ UNCHANGED tables
           ELSE \E fault \in RecipeFaults(d.v) :
                  LET t == UpdateRecipeTx(Visible, d.v, id, fault)
                  IN  IF t.err = "nil"
                        THEN /\ SetTables(t)
                             /\ RespondRecipe(h, "update", id, body, 200, RecipeBody)
                        ELSE /\ SetTables(TxRollback(Visible, t))
                             /\ RespondRecipe(h, "update", id, body, TxErrorCode(t.err),
                                              ErrorBody(t.err))
  /\ UNCHANGED <<ingestion_jobs, nextRecipe, resolver, run, conv, call, queue, sub, committed, npub>>

\* DELETE /recipes/{id}: DeleteRecipe is :exec, a missing row is no error;
\* steps and ingredients go with the recipe (ON DELETE CASCADE)
handleDeleteRecipe(h) ==
  /\ CanStart(h)
  /\ \E id \in RecipeIds, dbok \in BOOLEAN :
       IF dbok
         THEN /\ recipes' = { r \in recipes : r.id # id }
              /\ recipe_steps' = DeleteStepsByRecipe(recipe_steps, id)
              /\ recipe_ingredients' = DeleteIngredientsByRecipe(recipe_ingredients, id)
              /\ RespondRecipe(h, "delete", id, "", 204, NoBody)
         ELSE /\ UNCHANGED tables
              /\ RespondRecipe(h, "delete", id, "", 500, ErrorBody("failed to delete recipe"))
  /\ UNCHANGED <<ingestion_jobs, nextRecipe, resolver, run, conv, call, queue, sub, committed, npub>>

RecipesNext ==
  \/ \E h \in Handlers : handleCreateRecipe(h)
  \/ \E h \in Handlers : handleUpdateRecipe(h)
  \/ \E h \in Handlers : handleDeleteRecipe(h)

RecipesSpec == Init /\ [][RecipesNext]_vars

\* the subscriber on any one message when the broker keeps redelivering and the
\* database does not stay down: a received message is settled, and of the
\* deliveries of a queued message some find the database answering
FairSubscriberSpec ==
  /\ SubscriberInit
  /\ [][SubscriberNext]_vars
  /\ WF_vars(SubSettle)
  /\ SF_vars(SubDeliver /\ sub'.err # "db")

\* ------------------------------------------------------------ nullInt32
\* the weight of the high part of a Go int written [hi, lo]
Limb == 2^16

\* arguments around zero, around both ends of the 32-bit range, and far outside
Int64s ==
  { [hi |-> h, lo |-> l] :
      h \in {-65536, -32770, -32769, -32768, -32767, -1, 0, 1, 32766, 32767, 32768,
             32769, 65535, 65536},
      l \in {0, 1, 42, 32768, 65535} }

\* n > math.MaxInt32 || n < math.MinInt32
OutOfRange32(n) == n.hi > 32767 \/ n.hi < -32768

\* int32(n): the low 32 bits of n read as a two's complement number
ToInt32(n) == (((n.hi + 32768) % Limb) - 32768) * Limb + n.lo

\* the conversion without the range check, as the copy in the api package has it
nullInt32_mut(n) == [Int32 |-> ToInt32(n), Valid |-> n # Zero64]

\* sql.NullInt32{Valid: false} outside the 32-bit range,
\* else sql.NullInt32{Int32: int32(n), Valid: n != 0}
nullInt32(n) ==
  IF OutOfRange32(n) THEN [Int32 |-> 0, Valid |-> FALSE]
  ELSE [Int32 |-> ToInt32(n), Valid |-> n # Zero64]

\* nullInt32 is called with some int
NullIntCall ==
  /\ conv.pc \in {"idle", "returned"}
  /\ \E n \in Int64s : conv' = [NoConv EXCEPT !.pc = "called", !.n = n]
  /\ UNCHANGED <<ingestion_jobs, tables, nextRecipe, resolver, run, call, req, response,
                 queue, sub, committed, npub>>

\* nullInt32 returns
NullIntReturn ==
  /\ conv.pc = "called"
  /\ conv' = [conv EXCEPT !.pc = "returned", !.out = nullInt32(conv.n)]
  /\ UNCHANGED <<ingestion_jobs, tables, nextRecipe, resolver, run, call, req, response,
                 queue, sub, committed, npub>>

NullIntNext == NullIntCall \/ NullIntReturn

NullIntSpec == Init /\ [][NullIntNext]_vars

\* ---------------------------------------------------------------- claims
Status(j) == ingestion_jobs[j].status
Jobs == DOMAIN ingestion_jobs

\* the rows of one recipe in the visible tables
StepsOf(rid) == { s \in recipe_steps : s.recipe_id = rid }
IngredientsOf(rid) == { g \in recipe_ingredients : g.recipe_id = rid }

\* handler h takes the ConfirmCommit step
Commits(h) == req[h].pc = "commit" /\ req'[h].pc # "commit"
CommitSucceeds(h) == req[h].pc = "commit" /\ req'[h].pc = "mark_confirmed"
CommitFails(h) == req[h].pc = "commit" /\ req'[h].pc = "done"

\* C1: for every job the commit transaction completes successfully at most
\* once, so at most one recipe is ever persisted for the job
C1_CommitAtMostOnce ==
  \A j \in JobIds : Cardinality({ c \in committed : c.job = j }) <= 1

\* C2: once a job is failed or confirmed, no step changes its status
C2_TerminalStatuses ==
  [][\A j \in Jobs : Status(j) \in {"failed", "confirmed"}
                       => ingestion_jobs'[j].status = Status(j)]_vars

\* C3: staged_data is non-null exactly when the status is staged or confirmed
C3_StagedDataIffStaged ==
  \A j \in Jobs :
    (ingestion_jobs[j].staged_data # NULL) <=> (Status(j) \in {"staged", "confirmed"})

\* C4: a confirm of an existing job that is not staged answers 409 (or 500 when
\* the read of the job itself failed), never goes on to the commit, and leaves
\* the jobs and the recipe tables unchanged
C4_ConfirmNotStaged ==
  [][\A h \in Handlers, j \in Jobs :
       ( /\ req[h].pc = "idle"
         /\ Status(j) # "staged"
         /\ \/ req'[h].op = "confirm" /\ req'[h].job = j
            \/ req'[h].pc = "done" /\ response' # response /\ response'.op = "confirm"
                 /\ response'.job = j )
       => /\ req'[h].pc = "done"
          /\ response'.h = h /\ response'.code \in {409, 500}
          /\ UNCHANGED <<ingestion_jobs, tables, committed, nextRecipe>>]_vars

C4_Witness ==
  /\ response.op = "confirm" /\ response.code = 409
  /\ response.job \in Jobs /\ Status(response.job) = "confirmed"

\* C5: for every recipe id, either the recipe row with all the steps and all
\* the ingredients of the payload it was committed from is visible, or no row
\* of that recipe is
C5_AllOrNothing ==
  \A rid \in 1..MaxRecipes :
    IF \E r \in recipes : r.id = rid
      THEN \E c \in committed :
             /\ c.recipe = rid
             /\ { s.step_number : s \in StepsOf(rid) } = 1..Len(Unmarshal(c.raw).v.Steps)
             /\ { g.seq : g \in IngredientsOf(rid) } = 1..Len(Unmarshal(c.raw).v.Ingredients)
      ELSE StepsOf(rid) = {} /\ IngredientsOf(rid) = {}

\* a commit was aborted (the response is its 500) while another committed
C5_Witness ==
  /\ response.op = "confirm" /\ response.code = 500 /\ response.calls # << >>
  /\ \E r \in recipes : StepsOf(r.id) # {} /\ IngredientsOf(r.id) # {}

\* C6: a commit in which the resolver fails persists nothing, is answered with a
\* failure, and leaves the job row as it was, so a staged job stays staged
C6_ResolverFailure ==
  [][\A h \in Handlers :
       ( /\ Commits(h)
         /\ response'.h = h /\ response' # response
         /\ response'.calls # << >>
         /\ response'.calls[Len(response'.calls)].res = "error" )
       => /\ response'.code = 500
          /\ UNCHANGED <<tables, committed>>
          /\ ingestion_jobs' = ingestion_jobs]_vars

\* the confirm failed on the resolver and a later confirm of the same, still
\* staged, job has committed
C6_Witness ==
  /\ response.op = "confirm" /\ response.code = 500 /\ response.calls # << >>
  /\ response.calls[Len(response.calls)].res = "error"
  /\ \E h \in Handlers : /\ req[h].pc = "mark_confirmed" /\ req[h].job = response.job
                         /\ Status(req[h].job) = "staged"


\* the payload whose commit handler h is running, and the ids it carries
StagedOf(h) == Unmarshal(req[h].data).v
AllPreResolved(staged) ==
  \A k \in 1..Len(staged.Ingredients) : staged.Ingredients[k].IngredientID # ""
Lacking(staged) ==
  { k \in 1..Len(staged.Ingredients) : staged.Ingredients[k].IngredientID = "" }

\* the resolver calls of the commit that h has just run
CallsMade(h) ==
  IF CommitSucceeds(h)
    THEN (CHOOSE c \in committed' : c.recipe = req'[h].rid).calls
    ELSE response'.calls

\* C7: a successful commit of a payload whose ingredients all carry an id adds
\* exactly one recipe, its s steps numbered 1..s in payload order, and its N
\* ingredients with the ids they carried, and makes no resolver call
C7_PreResolvedCommit ==
  [][\A h \in Handlers :
       (CommitSucceeds(h) /\ AllPreResolved(StagedOf(h)))
       => LET staged == StagedOf(h)
              rid == req'[h].rid
          IN  /\ \A r \in recipes : r.id # rid
              /\ recipes' = recipes \cup {[id |-> rid, title |-> staged.Title]}
              /\ recipe_steps' \ recipe_steps =
                   { [recipe_id |-> rid, step_number |-> k, instruction |-> staged.Steps[k]] :
                       k \in 1..Len(staged.Steps) }
              /\ recipe_steps \subseteq recipe_steps'
              /\ recipe_ingredients' \ recipe_ingredients =
                   { [recipe_id |-> rid, seq |-> k,
                      ingredient_id |-> IF staged.Ingredients[k].IngredientID \in {"u1", "{u1}"}
                                          THEN "u1" ELSE "u2"] :
                       k \in 1..Len(staged.Ingredients) }
              /\ recipe_ingredients \subseteq recipe_ingredients'
              /\ CallsMade(h) = << >>]_vars

\* the soup (2 steps, 2 ingredients, both with an id) has been committed
C7_Witness ==
  \E h \in Handlers :
    /\ req[h].pc = "mark_confirmed" /\ req[h].data = "soup"
    /\ Cardinality(StepsOf(req[h].rid)) = 2 /\ Cardinality(IngredientsOf(req[h].rid)) = 2

\* C8: in one commit the resolver is called, in payload order, once for each
\* ingredient lacking an id with that ingredient's name, never for one with an
\* id and never after a call failed; on success every lacking ingredient was
\* resolved and its row stores the id the resolver returned
C8_ResolverCalls ==
  [][\A h \in Handlers :
       Commits(h)
       => LET staged == StagedOf(h)
              calls == CallsMade(h)
              n == Len(calls)
          IN  /\ \A k \in 1..n :
                   /\ calls[k].seq \in Lacking(staged)
                   /\ calls[k].name = staged.Ingredients[calls[k].seq].Name
                   /\ Cardinality({ m \in Lacking(staged) : m < calls[k].seq }) = k - 1
                   /\ calls[k].res = "error" => k = n /\ CommitFails(h)
              /\ CommitSucceeds(h) =>
                   /\ n = Cardinality(Lacking(staged))
                   /\ \A k \in 1..n :
                        [recipe_id |-> req'[h].rid, seq |-> calls[k].seq,
                         ingredient_id |-> calls[k].res] \in recipe_ingredients']_vars

\* the pasta (ingredients 1 and 3 lack an id, 2 carries one) has been committed
C8_Witness ==
  \E h \in Handlers, c \in committed :
    /\ req[h].pc = "mark_confirmed" /\ req[h].data = "pasta" /\ c.recipe = req[h].rid
    /\ Len(c.calls) = 2
    /\ Cardinality(IngredientsOf(req[h].rid)) = 3

\* C9: a job with status confirmed has a committed recipe produced from its
\* staged payload
C9_ConfirmedHasRecipe ==
  \A j \in Jobs :
    Status(j) = "confirmed"
      => \E c \in committed :
           /\ c.job = j
           /\ ingestion_jobs[j].staged_data # NULL
           /\ Unmarshal(c.raw).v = Unmarshal(ingestion_jobs[j].staged_data).v

\* C10: a staged job holds a payload that deserializes to a StagedRecipe with a
\* non-empty title
C10_StagedHasTitle ==
  \A j \in Jobs :
    Status(j) = "staged"
      => /\ ingestion_jobs[j].staged_data # NULL
         /\ Unmarshal(ingestion_jobs[j].staged_data).ok
         /\ Unmarshal(ingestion_jobs[j].staged_data).v.Title # ""

\* handler h writes the response of its ingest in this step
IngestResponds(h) ==
  /\ req[h].op = "ingest" /\ req'[h].pc = "done"
  /\ response'.h = h /\ response'.op = "ingest"

\* C11: when the synchronous extraction of a job fails, the job's status becomes
\* failed and its staged_data stays unset
C11_ExtractionFailure ==
  [][\A h \in Handlers :
       (IngestResponds(h) /\ response'.body.error = "extraction failed")
       => /\ ingestion_jobs'[req[h].job].status = "failed"
          /\ ingestion_jobs'[req[h].job].staged_data = NULL]_vars

\* ------------------------------------------- claims on the subscriber
\* the handler runs on the valid message m in this step
Handled(m) == sub.pc = "recv" /\ sub'.pc = "settle" /\ sub'.msg = m /\ m.Valid

\* the subscriber settles (acks or nacks) the valid message m in this step
Settled(m) == sub.pc = "settle" /\ sub.msg = m /\ sub'.pc = "recv" /\ m.Valid

\* C12: a message with status failed for an existing job sets the job's status
\* to failed and nothing else of the row, whatever payload the message carries
\* (when the database query itself fails, the jobs are left as they were)
C12_FailedMessage ==
  [][\A m \in AllEvents :
       (Handled(m) /\ m.Status \in {"failed", " failed "} /\ m.JobID \in Jobs)
       => \/ /\ sub'.err = "nil"
             /\ ingestion_jobs' = [ingestion_jobs EXCEPT ![m.JobID].status = "failed"]
          \/ /\ sub'.err = "db"
             /\ ingestion_jobs' = ingestion_jobs]_vars

\* a failed message carrying a payload was applied to a confirmed job: the job
\* is failed and still holds the payload it had
C12_Witness ==
  /\ sub.pc = "settle" /\ sub.err = "nil"
  /\ sub.msg.Status = " failed " /\ sub.msg.StagedData = "soup"
  /\ sub.msg.JobID \in Jobs
  /\ Status(sub.msg.JobID) = "failed"
  /\ ingestion_jobs[sub.msg.JobID].staged_data = "pasta"

\* C13: a message with status staged, failed or omitted whose job id matches no
\* job makes the handler return sql.ErrNoRows (or the error of a database query
\* that failed), leaves the jobs as they were, and is acknowledged, not requeued
C13_UnknownJob ==
  [][\A m \in AllEvents :
       (m.Valid /\ m.JobID \notin Jobs
          /\ m.Status \in {"", " ", "staged", " staged ", "failed", " failed "})
       => /\ Handled(m) => /\ sub'.err \in {"ErrNoRows", "db"}
                           /\ ingestion_jobs' = ingestion_jobs
          /\ (Settled(m) /\ sub.err # "db") => queue' = queue]_vars

\* C14: a message whose trimmed status is neither empty, "staged" nor "failed"
\* is rejected with the unsupported-status error and no job is written
C14_UnsupportedStatus ==
  [][\A m \in AllEvents :
       (Handled(m) /\ m.Status \in {"Failed", "done"})
       => /\ sub'.err = "unsupported status"
          /\ ingestion_jobs' = ingestion_jobs]_vars

\* the handler rejected a message with status "Failed" for the existing, staged job
C14_Witness ==
  /\ sub.pc = "settle" /\ sub.err = "unsupported status"
  /\ sub.msg.Status = "Failed" /\ sub.msg.JobID \in Jobs
  /\ Status(sub.msg.JobID) = "staged"

\* C15: a message with status staged or omitted whose payload is empty or is
\* not JSON for a StagedRecipe is rejected with an error, and the jobs keep
\* their status and staged_data
C15_MalformedPayload ==
  [][\A m \in AllEvents :
       (Handled(m) /\ m.Status \in {"", " ", "staged", " staged "}
          /\ m.StagedData \in {"", "not json"})
       => /\ sub'.err \in {"missing staged_data", "invalid staged_data"}
          /\ ingestion_jobs' = ingestion_jobs]_vars

\* the handler rejected an unparseable payload for the existing, pending job
C15_Witness ==
  /\ sub.pc = "settle" /\ sub.err = "invalid staged_data"
  /\ sub.msg.StagedData = "not json" /\ sub.msg.Status = ""
  /\ sub.msg.JobID \in Jobs
  /\ Status(sub.msg.JobID) = "pending"
  /\ ingestion_jobs[sub.msg.JobID].staged_data = NULL

\* C16: a message whose status is empty or blank is handled as the same
\* message with status "staged" is: same error returned, same jobs left
C16_OmittedStatusIsStaged ==
  [][\A m \in AllEvents :
       (Handled(m) /\ m.Status \in {"", " "})
       => \E dbok \in BOOLEAN :
            [err |-> sub'.err, jobs |-> ingestion_jobs'] =
              HandleRecipeImportedEvent(ingestion_jobs, [m EXCEPT !.Status = "staged"], dbok)]_vars

\* a message with a blank status staged the soup on the job that was processing
C16_Witness ==
  /\ sub.pc = "settle" /\ sub.err = "nil" /\ sub.msg.Status = " "
  /\ sub.msg.JobID \in Jobs
  /\ Status(sub.msg.JobID) = "staged"
  /\ ingestion_jobs[sub.msg.JobID].staged_data = "soup"

\* C17: a message that decodes is settled only once the handler has returned: it is
\* acknowledged when the handler returned nil, acknowledged and dropped when
\* the error is sql.ErrNoRows, and requeued on any other error
C17_AckNack ==
  [][\A m \in AllEvents :
       /\ Handled(m) => m \notin queue'
       /\ Settled(m) =>
            /\ sub.err # ""
            /\ sub.err \in {"nil", "ErrNoRows"} => queue' = queue
            /\ sub.err \notin {"nil", "ErrNoRows"} => queue' = queue \cup {m}]_vars

\* the message that staged the soup on job 1 has been acknowledged after the
\* handler returned nil: the subscriber is receiving again and nothing is queued
C17_Witness ==
  /\ sub = SubIdle /\ queue = {}
  /\ Jobs = {1} /\ Status(1) = "staged" /\ ingestion_jobs[1].staged_data = "soup"

\* ------------------------------------------ claims on the HTTP handlers
\* the request body carries no text: it does not decode, or its text is empty
NoText(body) == body \in {"not json", "{text:''}"}

\* C18: an ingest whose body does not decode or whose text is empty is answered
\* 400 at once and changes nothing: no job is created for it, no row is written
C18_EmptyTextRejected ==
  [][/\ \A h \in Handlers :
          (req'[h].op = "ingest" /\ req'[h] # req[h]) => ~NoText(req'[h].data)
     /\ (response' # response /\ response'.op = "ingest" /\ NoText(response'.input))
          => /\ response'.code = 400
             /\ req[response'.h].pc = "idle"
             /\ UNCHANGED <<ingestion_jobs, tables, committed, nextRecipe, queue, sub>>]_vars

\* an ingest with an empty text was answered 400 while a job exists
C18_Witness ==
  /\ response.op = "ingest" /\ response.input = "{text:''}" /\ response.code = 400
  /\ response.body.error = "text is required"
  /\ Jobs # {}

\* C19: an ingest with a non-empty text creates exactly one job, under an id no
\* job had, pending, with the text as raw_input and no staged_data, and the
\* response of the submission carries that job with status pending
C19_IngestCreatesPendingJob ==
  [][\A h \in Handlers :
       /\ (req[h].pc = "idle" /\ req'[h].op = "ingest" /\ req'[h].pc = "mark_processing")
            => LET j == req'[h].job
               IN  /\ j \notin DOMAIN ingestion_jobs
                   /\ DOMAIN ingestion_jobs' = DOMAIN ingestion_jobs \cup {j}
                   /\ \A k \in DOMAIN ingestion_jobs : ingestion_jobs'[k] = ingestion_jobs[k]
                   /\ ingestion_jobs'[j] =
                        [type |-> "text_blob", raw_input |-> "soup text",
                         status |-> "pending", staged_data |-> NULL]
                   /\ req'[h].data = "{text:'soup text'}"
       /\ (IngestResponds(h) /\ response'.code = 201)
            => /\ response'.job = req[h].job
               /\ response'.body.status = "pending"]_vars

\* C20: a status query writes nothing, and answers 200 with the status and the
\* staged_data the job row holds, so a query repeated while the row is as the
\* last query showed it returns the same status and payload
C20_StatusQuery ==
  [][(response' # response /\ response'.op = "get")
       => LET j == response'.job
          IN  /\ UNCHANGED <<ingestion_jobs, tables, committed, nextRecipe, queue, sub>>
              /\ response'.code = 200 =>
                   /\ j \in Jobs
                   /\ response'.body = [error |-> "", status |-> Status(j),
                                        staged_data |-> ingestion_jobs[j].staged_data]
              /\ response'.code = 404 => j \notin Jobs
              /\ ( /\ response.op = "get" /\ response.code = 200 /\ response.job = j
                   /\ response'.code = 200
                   /\ response.body.status = Status(j)
                   /\ response.body.staged_data = ingestion_jobs[j].staged_data )
                 => response'.body = response.body]_vars

\* a status query was answered with the staged job and its payload
C20_Witness ==
  /\ response.op = "get" /\ response.code = 200
  /\ response.job \in Jobs
  /\ response.body.status = "staged" /\ response.body.staged_data = "pasta"
  /\ Status(response.job) = "staged"

\* the edges of the ingestion-job state machine
Edges ==
  { <<"pending", "processing">>, <<"processing", "staged">>, <<"processing", "failed">>,
    <<"pending", "staged">>, <<"pending", "failed">>, <<"staged", "confirmed">> }

\* C21: every change of a job's status follows an edge of the state machine:
\* pending to processing, processing (or, for the asynchronous type, pending) to
\* staged or failed, staged to confirmed; no other change of status occurs
C21_StateMachineEdges ==
  [][\A j \in Jobs :
       Status(j) # ingestion_jobs'[j].status
         => <<Status(j), ingestion_jobs'[j].status>> \in Edges]_vars

\* handler h takes the ConfirmMark step and the job is not confirmed after it:
\* the update to confirmed failed
MarkFails(h) ==
  /\ req[h].pc = "mark_confirmed" /\ req'[h].pc = "done"
  /\ ingestion_jobs'[req[h].job].status # "confirmed"

\* C22: when the commit succeeded and the following update of the job to
\* confirmed fails, the committed recipe stays persisted with its steps and
\* ingredients (nothing is rolled back) and the confirm request is still
\* answered 201 with the committed recipe
C22_MarkFailureKeepsRecipe ==
  [][\A h \in Handlers :
       MarkFails(h) =>
         /\ response'.h = h /\ response'.code = 201 /\ response'.body = RecipeBody
         /\ tables' = tables
         /\ \E c \in committed :
              /\ c.job = req[h].job /\ c.recipe = req[h].rid
              /\ \E r \in recipes' : r.id = c.recipe
              /\ Cardinality({ s \in recipe_steps' : s.recipe_id = c.recipe })
                   = Len(Unmarshal(c.raw).v.Steps)
              /\ Cardinality({ g \in recipe_ingredients' : g.recipe_id = c.recipe })
                   = Len(Unmarshal(c.raw).v.Ingredients)]_vars

\* a confirm answered 201 whose job is still staged although no message was
\* ever published: the update to confirmed failed, the recipe with steps is there
C22_Witness ==
  /\ response.op = "confirm" /\ response.code = 201
  /\ npub = 0
  /\ response.job \in Jobs /\ Status(response.job) = "staged"
  /\ \E c \in committed :
       c.job = response.job /\ StepsOf(c.recipe) # {} /\ IngredientsOf(c.recipe) # {}

\* C29: after its creation no operation changes a job's id, type or raw_input
\* and no operation deletes a job: the set of jobs only grows
C29_JobsImmutable ==
  [][/\ Jobs \subseteq DOMAIN ingestion_jobs'
     /\ \A j \in Jobs :
          /\ ingestion_jobs'[j].type = ingestion_jobs[j].type
          /\ ingestion_jobs'[j].raw_input = ingestion_jobs[j].raw_input]_vars

\* both jobs exist and every kind of update has been applied to one of them
C29_Witness ==
  /\ Cardinality(Jobs) = MaxJobs
  /\ \E j \in Jobs : Status(j) = "confirmed" /\ ingestion_jobs[j].raw_input = "soup text"
  /\ \E j \in Jobs : Status(j) = "failed"

\* the step is an operation on job j: a handler serving a request about j moves,
\* or the subscriber handles a message carrying j's id
Addressed(j) ==
  \/ \E h \in Handlers :
       /\ req'[h] # req[h]
       /\ \/ req[h].job = j
          \/ req'[h].job = j
          \/ response'.h = h /\ response'.job = j
  \/ sub.pc = "recv" /\ sub'.pc = "settle" /\ sub'.msg.Valid /\ sub'.msg.JobID = j

\* C23: distinct jobs are independent: a step of an operation on another job
\* (ingest, message, status query, confirm), in any interleaving, leaves this
\* job's status and staged_data and the recipes committed from this job
\* unchanged, so the job moves only by its own operations
C23_JobsIndependent ==
  [][\A j \in Jobs :
       ~Addressed(j) =>
         /\ ingestion_jobs'[j] = ingestion_jobs[j]
         /\ \A c \in committed :
              c.job = j =>
                /\ c \in committed'
                /\ { r \in recipes' : r.id = c.recipe } = { r \in recipes : r.id = c.recipe }
                /\ { s \in recipe_steps' : s.recipe_id = c.recipe } = StepsOf(c.recipe)
                /\ { g \in recipe_ingredients' : g.recipe_id = c.recipe }
                     = IngredientsOf(c.recipe)]_vars

\* job 1 is confirmed with its recipe while job 2, created before that confirm
\* began, has since been staged by its own ingest: operations on both interleaved
C23_Witness ==
  /\ Cardinality(Jobs) = MaxJobs
  /\ Status(1) = "confirmed"
  /\ \E c \in committed : c.job = 1 /\ StepsOf(c.recipe) # {}
  /\ Status(2) = "staged"
  /\ response.op = "ingest" /\ response.job = 2 /\ response.code = 201

\* the row handed to the commit of handler h carries no parseable staged_data
NoStagedData(h) == req[h].data = NULL \/ ~Unmarshal(req[h].data).ok

\* C27: a commit of a job whose staged_data is absent or unparseable fails
\* before any transaction is begun: no row is written, the resolver is not
\* called and the job is left unchanged
C27_NoDataNoTransaction ==
  [][\A h \in Handlers :
       Commits(h) /\ NoStagedData(h) =>
         /\ CommitFails(h)
         /\ response'.h = h /\ response'.code = 500
         /\ response'.body.error =
              IF req[h].data = NULL
                THEN "failed to commit recipe: staged data is nil"
                ELSE "failed to commit recipe: unmarshal staged data"
         /\ response'.calls = << >>
         /\ tables' = tables /\ nextRecipe' = nextRecipe /\ committed' = committed
         /\ ingestion_jobs' = ingestion_jobs]_vars

\* one confirm has failed on absent staged_data and another on unparseable
\* staged_data; nothing was written
C27_Witness ==
  /\ response.op = "confirm" /\ response.code = 500
  /\ response.body.error = "failed to commit recipe: unmarshal staged data"
  /\ \E h \in Handlers :
       /\ req[h].pc = "done" /\ h # response.h
       /\ ingestion_jobs[h].staged_data = NULL
  /\ recipes = {} /\ recipe_steps = {} /\ recipe_ingredients = {}

\* the spellings uuid.Parse accepts and the id each denotes
Denotes == { <<"u1", "u1">>, <<"{u1}", "u1">>, <<"u2", "u2">>, <<"{u2}", "u2">> }

\* the ingredients of the payload that carry an id uuid.Parse rejects
Malformed(staged) ==
  { k \in 1..Len(staged.Ingredients) :
      /\ staged.Ingredients[k].IngredientID # ""
      /\ \A d \in Denotes : d[1] # staged.Ingredients[k].IngredientID }

\* the commit errors that come from the database
DbErrors ==
  { "failed to commit recipe: " \o e :
      e \in {"begin tx", "create recipe", "create step", "create recipe ingredient",
             "commit tx"} }

\* C28: with no resolver configured, the commit of a well-formed payload fails
\* and persists nothing when at least one staged ingredient lacks an
\* ingredient_id, and fails for want of a resolver only then; a payload whose
\* ingredients all carry well-formed ids is committed without a resolver
\* (unless the database itself fails)
C28_NoResolver ==
  [][\A h \in Handlers :
       Commits(h) /\ resolver = "nil" /\ ~NoStagedData(h) /\ Malformed(StagedOf(h)) = {} =>
         LET staged == StagedOf(h)
         IN  /\ Lacking(staged) # {} =>
                  /\ CommitFails(h)
                  /\ response'.calls = << >>
                  /\ response'.body.error \in
                       DbErrors \cup
                         {"failed to commit recipe: ingredient resolver is not configured"}
             /\ Lacking(staged) = {} =>
                  \/ /\ CommitSucceeds(h)
                     /\ Cardinality({ g \in recipe_ingredients' : g.recipe_id = req'[h].rid })
                          = Len(staged.Ingredients)
                     /\ CallsMade(h) = << >>
                  \/ CommitFails(h) /\ response'.body.error \in DbErrors
             /\ CommitFails(h) => tables' = tables /\ committed' = committed]_vars

\* without a resolver the pre-resolved soup has been committed and confirmed
\* and the commit of a payload with unresolved ingredients has just failed
C28_Witness ==
  /\ resolver = "nil"
  /\ \E c \in committed :
       /\ c.raw = "soup" /\ Status(c.job) = "confirmed"
       /\ Cardinality(IngredientsOf(c.recipe)) = 2
  /\ response.op = "confirm" /\ response.code = 500
  /\ response.body.error = "failed to commit recipe: ingredient resolver is not configured"
  /\ Lacking(Unmarshal(ingestion_jobs[response.job].staged_data).v) # {}

\* C30: every recipe ingredient a commit writes carries the id its staged
\* ingredient spelled, when that id is well-formed, or else the id the resolver
\* returned for the ingredient's name; a commit of a payload with a present but
\* malformed ingredient_id fails and leaves no row: the malformed id is neither
\* stored nor sent to the resolver
C30_IngredientIds ==
  [][\A h \in Handlers :
       Commits(h) /\ ~NoStagedData(h) =>
         LET staged == StagedOf(h)
             ings == staged.Ingredients
             rows == { g \in recipe_ingredients' : g.recipe_id = req'[h].rid }
         IN  /\ CommitSucceeds(h) =>
                  /\ Cardinality(rows) = Len(ings)
                  /\ \A k \in 1..Len(ings) :
                       \E g \in rows :
                         /\ g.seq = k
                         /\ IF ings[k].IngredientID # ""
                              THEN <<ings[k].IngredientID, g.ingredient_id>> \in Denotes
                              ELSE \E i \in DOMAIN CallsMade(h) :
                                     /\ CallsMade(h)[i].seq = k
                                     /\ CallsMade(h)[i].name = ings[k].Name
                                     /\ CallsMade(h)[i].res = g.ingredient_id
             /\ Malformed(staged) # {} =>
                  /\ CommitFails(h)
                  /\ tables' = tables /\ committed' = committed
                  /\ \A i \in DOMAIN response'.calls :
                       response'.calls[i].seq \notin Malformed(staged)]_vars

\* a payload with resolved and pre-resolved ingredients has been committed with
\* the dictionary's ids and the spelled id, and the commit of the payload with a
\* malformed id has just failed on parsing it
C30_Witness ==
  /\ resolver = "dict"
  /\ \E c \in committed :
       /\ c.raw = "pasta"
       /\ { g.ingredient_id : g \in IngredientsOf(c.recipe) } = {"u8", "u1", "u9"}
  /\ response.op = "confirm" /\ response.code = 500
  /\ response.body.error = "failed to commit recipe: parse ingredient_id"
  /\ ingestion_jobs[response.job].staged_data = "stew"
  /\ Cardinality(recipes) = 1

\* C26: ResolveIngredient returns the id the dictionary named exactly when the
\* response status is 200 or 201, the body decodes and the id in it is a
\* well-formed UUID, found (200) and created (201) being treated alike; every
\* other outcome (another status, a transport failure, an undecodable body, a
\* malformed id) is an error and no id
C26_ResolveIngredient ==
  call.pc = "returned" =>
    LET r == call.reply
        good == /\ r.sent /\ r.code \in {200, 201}
                /\ DecodeResolveResponse(r.body).ok
                /\ \E d \in Denotes : d[1] = DecodeResolveResponse(r.body).id
    IN  IF good
          THEN call.err = "nil" /\ <<DecodeResolveResponse(r.body).id, call.id>> \in Denotes
          ELSE call.err # "nil" /\ call.id = "nil"

\* a call answered 201 with a braced id has returned the id it denotes
C26_Witness ==
  /\ call.pc = "returned"
  /\ call.reply.sent /\ call.reply.code = 201
  /\ call.reply.body = "{ingredient:{id:'{u2}'}}"
  /\ call.id = "u2" /\ call.err = "nil"

\* C24: in every reachable state the step numbers of every persisted recipe are
\* unique and form 1..k without gaps, whether the recipe was committed from a
\* staged payload, created directly or updated
C24_StepNumbersContiguous ==
  \A r \in recipes :
    /\ { s.step_number : s \in StepsOf(r.id) } = 1..Cardinality(StepsOf(r.id))
    /\ \A s1, s2 \in StepsOf(r.id) : s1.step_number = s2.step_number => s1 = s2

\* handler h answers an update request in this step
UpdateReturns(h) ==
  /\ req[h].pc = "idle" /\ req'[h].pc = "done"
  /\ response'.h = h /\ response'.op = "update"

\* C25: a successful update replaces the recipe's children wholesale: afterwards
\* its steps and ingredients are exactly those of the new payload and no old row
\* survives; a failed update (a failing step or ingredient statement, an invalid
\* ingredient id) leaves the recipe's scalar fields, steps and ingredients
\* exactly as they were
C25_UpdateReplacesOrKeeps ==
  [][\A h \in Handlers :
       UpdateReturns(h) =>
         LET id == req'[h].rid
             v == DecodeRecipeInput(response'.input).v
         IN  IF response'.code = 200
               THEN /\ { r \in recipes' : r.id = id } = {[id |-> id, title |-> v.Title]}
                    /\ { s \in recipe_steps' : s.recipe_id = id } =
                         { [recipe_id |-> id, step_number |-> v.Steps[k].StepNumber,
                            instruction |-> v.Steps[k].Instruction] : k \in 1..Len(v.Steps) }
                    /\ Cardinality({ g \in recipe_ingredients' : g.recipe_id = id })
                         = Len(v.Ingredients)
                    /\ \A k \in 1..Len(v.Ingredients) :
                         \E g \in recipe_ingredients' :
                           /\ g.recipe_id = id /\ g.seq = k
                           /\ <<v.Ingredients[k], g.ingredient_id>> \in Denotes
                    /\ { r \in recipes' : r.id # id } = { r \in recipes : r.id # id }
                    /\ { s \in recipe_steps' : s.recipe_id # id }
                         = { s \in recipe_steps : s.recipe_id # id }
                    /\ { g \in recipe_ingredients' : g.recipe_id # id }
                         = { g \in recipe_ingredients : g.recipe_id # id }
               ELSE tables' = tables]_vars

\* the third request, an update, has failed on an invalid ingredient id and the
\* recipe still holds what an earlier update gave it
C25_Witness ==
  /\ response.h = 3 /\ response.op = "update" /\ response.code = 400
  /\ response.body.error = "invalid ingredient_id"
  /\ nextRecipe = 1
  /\ recipes = {[id |-> 1, title |-> "Rice"]}
  /\ { s.step_number : s \in StepsOf(1) } = {2}
  /\ { g.ingredient_id : g \in IngredientsOf(1) } = {"u2", "u1"}

\* C31: on the synchronous path the extractor is called for a job only after
\* the job's status was set to processing: the handler enters the extraction
\* only in a step that leaves the job processing (a failed update ends the
\* request), and no job is pending while its extraction is in flight
C31_ExtractAfterProcessing ==
  [][\A h \in Handlers :
       /\ req[h].pc = "mark_processing" /\ req'[h].pc = "extract"
            => ingestion_jobs'[req[h].job].status = "processing"
       /\ req[h].pc = "mark_processing" /\ req'[h].pc # "mark_processing"
            /\ ingestion_jobs'[req[h].job].status = "pending"
            => /\ req'[h].pc = "done"
               /\ response'.h = h /\ response'.code = 500
               /\ response'.body.error = "failed to update job status"
       /\ req'[h].op = "ingest" /\ req'[h].pc = "extract"
            => ingestion_jobs'[req'[h].job].status # "pending"]_vars

\* one ingest was refused because its job could not be marked processing and
\* the job is still pending; the extraction of another job is in flight
C31_Witness ==
  /\ response.op = "ingest" /\ response.code = 500
  /\ response.body.error = "failed to update job status"
  /\ Status(response.job) = "pending"
  /\ \E h \in Handlers :
       req[h].op = "ingest" /\ req[h].pc = "extract" /\ Status(req[h].job) = "processing"

\* C32: staged_data is written only by an operation that moves the job from a
\* status other than staged into staged: a further staged message for a job
\* that is already staged or confirmed does not replace its staged_data
C32_StagedPayloadStable ==
  [][\A j \in Jobs :
       ingestion_jobs'[j].staged_data # ingestion_jobs[j].staged_data
         => /\ Status(j) \notin {"staged", "confirmed"}
            /\ ingestion_jobs'[j].status = "staged"]_vars

\* handler h, serving an ingest request that created a job, returns in this step
IngestReturns(h) ==
  /\ req[h].op = "ingest" /\ req[h].job # NoJob
  /\ req'[h].pc = "done"

\* C33: every synchronous ingest request that created a job leaves the job
\* staged or failed when the handler returns, whatever step failed; no job is
\* left pending or processing by its own request
C33_IngestEndsStagedOrFailed ==
  [][\A h \in Handlers :
       IngestReturns(h) => ingestion_jobs'[req[h].job].status \in {"staged", "failed"}]_vars

\* C35: the dictionary call succeeds for every 2xx response that carries a
\* well-formed id: for each status in 200..299 with a decodable body and a
\* valid UUID, ResolveIngredient returns that id
C35_Any2xxAccepted ==
  call.pc = "returned" /\ call.reply.sent /\ call.reply.code \in 200..299
    /\ DecodeResolveResponse(call.reply.body).ok
    /\ (\E d \in Denotes : d[1] = DecodeResolveResponse(call.reply.body).id)
  => /\ call.err = "nil"
     /\ <<DecodeResolveResponse(call.reply.body).id, call.id>> \in Denotes

\* C37: for every int n, nullInt32(n) is valid exactly when n is not zero and
\* lies in the signed 32-bit range, and then its value is n; an n outside the
\* 32-bit range gives NULL, not a wrapped number
C37_NullInt32 ==
  conv.pc = "returned" =>
    LET n == conv.n
        inRange == n.hi >= -32768 /\ n.hi <= 32767
        nonZero == n.hi # 0 \/ n.lo # 0
    IN  /\ conv.out.Valid <=> (nonZero /\ inRange)
        /\ conv.out.Valid => conv.out.Int32 = n.hi * 65536 + n.lo

\* nullInt32 has returned NULL for 2^31 + 1, one limb above the largest int32,
\* whose low 32 bits read as a negative number
C37_Witness ==
  /\ conv.pc = "returned"
  /\ conv.n = [hi |-> 32768, lo |-> 1]
  /\ ~conv.out.Valid

\* C34: with fair redelivery and an available database every delivered message
\* is eventually acknowledged and leaves the queue: the queue ends up empty with
\* no message in the subscriber's hands
C34_EventuallyAcked == <>(queue = {} /\ sub.pc = "recv")

\* C36: the subscriber loop ends in exactly two ways: Run returns nil once its
\* context is cancelled and returns the channel-closed error once the delivery
\* channel is closed; while neither has happened it has not returned and takes
\* any queued message; once it has returned it stays returned and no message
\* changes a job or leaves the queue
C36_RunTerminates ==
  [][ /\ (sub.pc # "returned" /\ sub'.pc = "returned") =>
           \/ sub'.err = "nil" /\ run.ctx = "cancelled"
           \/ sub'.err = "recipe.imported delivery channel closed" /\ run.msgs = "closed"
      /\ (run.ctx = "live" /\ run.msgs = "open") =>
           /\ sub.pc # "returned"
           /\ (sub.pc = "recv" /\ queue # {}) => ENABLED SubDeliver
      /\ sub.pc = "returned" =>
           /\ sub' = sub
           /\ ingestion_jobs' = ingestion_jobs
           /\ queue \subseteq queue' ]_vars

\* Run has returned the channel-closed error with its context still live, and
\* a message that would have marked the pending job 1 failed is left in the queue
C36_Witness ==
  /\ sub.pc = "returned"
  /\ sub.err = "recipe.imported delivery channel closed"
  /\ run.ctx = "live"
  /\ Len(ingestion_jobs) = 1
  /\ ingestion_jobs[1].status = "pending"
  /\ \E m \in queue : m.Valid /\ m.JobID = 1 /\ m.Status = "failed"

====
